---- MODULE Spec2Model ----
(***************************************************************************)
(* A state-machine model of two development-server utilities:              *)
(*                                                                         *)
(*   - webSocketProxy.js : the debugger/client connection broker           *)
(*   - attachHMRServer.js: the Hot Module Replacement session and the      *)
(*                         per-file-change update cycle                    *)
(*                                                                         *)
(* Each part has its own next-state relation (NextBroker, NextHMR) over    *)
(* the one set of variables; the other part's variables stay unchanged.    *)
(***************************************************************************)
EXTENDS Integers, Sequences, FiniteSets, Bags, TLC

\* no socket: the value of an empty slot (sockets are numbered from 1)
NoSocket == 0

\* no callback installed, no payload
NULL == "null"

(***************************************************************************)
(* Bounds of the model.                                                    *)
(***************************************************************************)
\* broker sockets accepted over a run
MaxConn == 3
\* peer messages handled by the broker over a run
MaxMsgs == 1

Sockets == 1..MaxConn

\* payloads a peer may send; the broker treats them as opaque
Data == {"d1", "d2"}

\* JSON.stringify({ method: '$disconnected' })
Disconnected == "{\"method\":\"$disconnected\"}"

\* the upgrade URLs a peer may connect with: which of the two substrings
\* 'role=debugger' and 'role=client' the URL holds
Urls == [hasDebugger : BOOLEAN, hasClient : BOOLEAN]

NoHandlers == [onerror |-> NULL, onclose |-> NULL, onmessage |-> NULL]

\* HMR connections accepted over a run
MaxHmrConn == 2
\* file-change cycles in flight at a time
MaxCycles == 2

HmrSockets == 1..MaxHmrConn

\* the source files of the project; the resolver answers for each of them
Files == {"A", "B", "C"}

\* the leaf resources (dep.isAsset() || dep.isAsset_DEPRECATED() || dep.isJSON())
Leaves == {"C"}

\* the require lists an edit can leave in a file
DepChoices(f) ==
  IF f = "A" THEN {<<>>, <<"B">>}
  ELSE IF f = "B" THEN {<<"C">>}
  ELSE {<<>>}

\* the files whose changes the packager reports
Watched == {"A", "B"}

\* the query parameters of the upgrade URL of the k-th HMR client: an iOS app
\* and an Android app connect in turn, both for the bundle of entry file A
Params(k) ==
  [platform |-> IF k % 2 = 1 THEN "ios" ELSE "android", bundleEntry |-> "A"]

\* the errors the packager may reject a request with
ErrorTypes == {"TransformError", "NotFoundError", "UnableToResolveError", "SyntaxError"}
\* the failures drawn for the requests of a cycle: one error whose type is
\* passed on to the client and one that is not
Failures == {"TransformError", "SyntaxError"}
PackagerError(t, f) ==
  [type |-> t, description |-> "failed", filename |-> f, lineNumber |-> 7]

VARIABLES
  \* ---- webSocketProxy.js ----
  debuggerSocket,   \* the debugger slot: a socket or NULL
  clientSocket,     \* the client slot: a socket or NULL
  readyState,       \* per socket: "NONE" (not accepted yet), "OPEN", "CLOSING", "CLOSED"
  handlers,         \* per socket: the onerror / onclose / onmessage callbacks installed
  closeArgs,        \* per socket: <<code, reason>> of the broker's ws.close call, or <<>>
  inbox,            \* per socket: the messages handed to its send() without a throw
  errored,          \* per socket: its 'error' event has been emitted
  nAccepted,        \* sockets accepted so far
  nMsgs,            \* peer messages handled so far
  uncaught,         \* an exception has left one of the broker's callbacks
  \* ---- attachHMRServer.js ----
  client,           \* the session: <<>> (null) or <<record>>
  listener,         \* packagerServer's HMR file-change listener: <<>> or <<closure>>
  hmrState,         \* per HMR socket: "NONE", "OPEN", "CLOSING", "CLOSED"
  hmrPhase,         \* per HMR socket: "none", "pending" (snapshot requested), "attached"
  hmrParams,        \* per HMR socket: the query parameters of its upgrade URL
  hmrErrored,       \* per HMR socket: its 'error' event has been emitted
  nHmr,             \* HMR sockets accepted so far
  fs,               \* the project: per file its current require list
  cycle,            \* the change cycles in flight: a bag of their positions and local values
  ended,            \* <<the cycle that ended in the last step>>, or <<>>
  \* ---- attachHMRServer.js, the catch callback on its own ----
  error,            \* the error a request was rejected with, or <<>>
  body,             \* the body of the 'error' message made of it, or <<>>
  \* ---- AsyncStorage ----
  appID,            \* __SIPHON.appID, a string as the sequence of its characters
  store,            \* the native storage: value per stored native key
  result            \* how the last AsyncStorage call ended, or <<>>

brokerVars == <<debuggerSocket, clientSocket, readyState, handlers, closeArgs,
                inbox, errored, nAccepted, nMsgs, uncaught>>

hmrVars == <<client, listener, hmrState, hmrPhase, hmrParams, hmrErrored, nHmr,
             fs, cycle, ended>>

errVars == <<error, body>>

\* what a step of the broker, of the HMR server, of the catch callback leaves alone
storageVars == <<appID, store, result>>

exceptBroker == <<hmrVars, errVars, storageVars>>
exceptHMR == <<brokerVars, errVars, storageVars>>
exceptErr == <<brokerVars, hmrVars, storageVars>>
exceptStorage == <<brokerVars, hmrVars, errVars>>

vars == <<brokerVars, hmrVars, errVars, storageVars>>

(***************************************************************************)
(* webSocketProxy.js                                                       *)
(***************************************************************************)

\* the transport state: what the sockets themselves hold
Transport == [readyState |-> readyState, closeArgs |-> closeArgs, inbox |-> inbox]

\* ws.send throws 'not opened' unless the socket is open
SendThrows(t, dest) == t.readyState[dest] # "OPEN"

\* send without its try/catch: the exception of dest.send leaves the function
sendNoCatch(t, dest, message) ==
  IF dest = NoSocket
    THEN [inbox |-> t.inbox, propagated |-> FALSE]
    ELSE IF SendThrows(t, dest)
      THEN [inbox |-> t.inbox, propagated |-> TRUE]
      ELSE [inbox |-> [t.inbox EXCEPT ![dest] = Append(@, message)],
            propagated |-> FALSE]

\* send(dest, message) on transport state t: the inbox after the call, and
\* whether an exception leaves the function
send(t, dest, message) ==
  IF dest = NoSocket
    THEN [inbox |-> t.inbox, propagated |-> FALSE]
    ELSE IF SendThrows(t, dest)
      THEN [inbox |-> t.inbox, propagated |-> FALSE]
      ELSE [inbox |-> [t.inbox EXCEPT ![dest] = Append(@, message)],
            propagated |-> FALSE]

\* ws.close(code, reason): a no-op on a socket that is closing or closed
CloseState(rs, ws) ==
  IF rs[ws] = "OPEN" THEN [rs EXCEPT ![ws] = "CLOSING"] ELSE rs

CloseArgs(ca, rs, ws, code, reason) ==
  IF rs[ws] = "OPEN" THEN [ca EXCEPT ![ws] = <<code, reason>>] ELSE ca

\* url.indexOf('role=debugger') > -1, with the slot taken: the newcomer is closed
DebuggerReject(ws) ==
  /\ readyState' = [readyState EXCEPT ![ws] = "CLOSING"]
  /\ closeArgs' = [closeArgs EXCEPT ![ws] = <<1011, "Another debugger is already connected">>]
  /\ UNCHANGED <<debuggerSocket, clientSocket, handlers>>

\* url.indexOf('role=debugger') > -1, with the slot free
DebuggerInstall(ws) ==
  /\ debuggerSocket' = ws
  /\ handlers' = [handlers EXCEPT ![ws] =
       [onerror |-> "debugger", onclose |-> "debugger", onmessage |-> "debugger"]]
  /\ readyState' = [readyState EXCEPT ![ws] = "OPEN"]
  /\ UNCHANGED <<clientSocket, closeArgs>>

\* the debugger branch without its occupancy test: the newcomer takes the slot
DebuggerBranchTakeover(ws) == DebuggerInstall(ws)

DebuggerBranch(ws) ==
  IF debuggerSocket # NoSocket THEN DebuggerReject(ws) ELSE DebuggerInstall(ws)

\* the client branch closing a previous occupant with its callbacks left on
ClientBranchLoud(ws) ==
  LET old == clientSocket
      opened == [readyState EXCEPT ![ws] = "OPEN"]
  IN
  /\ handlers' = [handlers EXCEPT ![ws] =
       [onerror |-> "client", onclose |-> "client", onmessage |-> "client"]]
  /\ readyState' = IF old # NoSocket THEN CloseState(opened, old) ELSE opened
  /\ closeArgs' = IF old # NoSocket
                    THEN CloseArgs(closeArgs, opened, old, 1011, "Another client connected")
                    ELSE closeArgs
  /\ clientSocket' = ws
  /\ UNCHANGED debuggerSocket

\* url.indexOf('role=client') > -1: a previous occupant is silenced and closed
ClientBranch(ws) ==
  LET old == clientSocket
      opened == [readyState EXCEPT ![ws] = "OPEN"]
      silenced == IF old # NoSocket THEN [handlers EXCEPT ![old] = NoHandlers] ELSE handlers
  IN
  /\ handlers' = [silenced EXCEPT ![ws] =
       [onerror |-> "client", onclose |-> "client", onmessage |-> "client"]]
  /\ readyState' = IF old # NoSocket THEN CloseState(opened, old) ELSE opened
  /\ closeArgs' = IF old # NoSocket
                    THEN CloseArgs(closeArgs, opened, old, 1011, "Another client connected")
                    ELSE closeArgs
  /\ clientSocket' = ws
  /\ UNCHANGED debuggerSocket

\* the else branch taking the newcomer for a client
NoRoleBranchAsClient(ws) == ClientBranch(ws)

\* neither role in the URL
NoRoleBranch(ws) ==
  /\ readyState' = [readyState EXCEPT ![ws] = "CLOSING"]
  /\ closeArgs' = [closeArgs EXCEPT ![ws] = <<1011, "Missing role param">>]
  /\ UNCHANGED <<debuggerSocket, clientSocket, handlers>>

\* the branch of the connection handler an upgrade URL selects
Role(url) ==
  IF url.hasDebugger THEN "debugger" ELSE IF url.hasClient THEN "client" ELSE "none"

\* wss.on('connection'): the next socket is accepted with upgrade URL url
Connect(url) ==
  /\ nAccepted < MaxConn
  /\ LET ws == nAccepted + 1 IN
     /\ nAccepted' = ws
     /\ IF Role(url) = "debugger" THEN DebuggerBranch(ws)
        ELSE IF Role(url) = "client" THEN ClientBranch(ws)
        ELSE NoRoleBranch(ws)
  /\ UNCHANGED <<inbox, errored, nMsgs, uncaught>>

\* debuggerSocket.onmessage / clientSocket.onmessage
OnMessageHandler(ws, data) ==
  LET dest == IF handlers[ws].onmessage = "debugger" THEN clientSocket ELSE debuggerSocket
      r == IF handlers[ws].onmessage = NULL
             THEN [inbox |-> inbox, propagated |-> FALSE]
             ELSE send(Transport, dest, data)
  IN /\ inbox' = r.inbox
     /\ uncaught' = (uncaught \/ r.propagated)

\* a 'message' event of a socket: frames keep arriving until the closing
\* handshake is over
OnMessage(ws, data) ==
  /\ readyState[ws] \in {"OPEN", "CLOSING"}
  /\ nMsgs < MaxMsgs
  /\ nMsgs' = nMsgs + 1
  /\ OnMessageHandler(ws, data)
  /\ UNCHANGED <<debuggerSocket, clientSocket, readyState, handlers, closeArgs,
                 errored, nAccepted>>

\* the debugger's close callback leaving the client connected
DebuggerGoneKeepClient(t) ==
  /\ debuggerSocket' = NoSocket
  /\ readyState' = t.readyState
  /\ closeArgs' = t.closeArgs
  /\ inbox' = t.inbox
  /\ UNCHANGED <<clientSocket, uncaught>>

\* debuggerSocket.onerror = debuggerSocket.onclose
DebuggerGone(t) ==
  /\ debuggerSocket' = NoSocket
  /\ readyState' = IF clientSocket # NoSocket
                     THEN CloseState(t.readyState, clientSocket) ELSE t.readyState
  /\ closeArgs' = IF clientSocket # NoSocket
                    THEN CloseArgs(t.closeArgs, t.readyState, clientSocket,
                                   1011, "Debugger was disconnected")
                    ELSE t.closeArgs
  /\ inbox' = t.inbox
  /\ UNCHANGED <<clientSocket, uncaught>>

\* the client's close callback without the notification to the debugger
ClientGoneSilent(t) ==
  /\ clientSocket' = NoSocket
  /\ inbox' = t.inbox
  /\ readyState' = t.readyState
  /\ closeArgs' = t.closeArgs
  /\ UNCHANGED <<debuggerSocket, uncaught>>

\* clientSocket.onerror = clientSocket.onclose
ClientGone(t) ==
  LET r == send(t, debuggerSocket, Disconnected) IN
  /\ clientSocket' = NoSocket
  /\ inbox' = r.inbox
  /\ readyState' = t.readyState
  /\ closeArgs' = t.closeArgs
  /\ uncaught' = (uncaught \/ r.propagated)
  /\ UNCHANGED debuggerSocket

\* the callback h installed for an 'error' or 'close' event, run on the
\* transport state t the event leaves
Gone(h, t) ==
  IF h = "debugger" THEN DebuggerGone(t)
  ELSE IF h = "client" THEN ClientGone(t)
  ELSE /\ readyState' = t.readyState
       /\ closeArgs' = t.closeArgs
       /\ inbox' = t.inbox
       /\ UNCHANGED <<debuggerSocket, clientSocket, uncaught>>

\* the peer starts the closing handshake: the socket stops being open before
\* any event is emitted
PeerClosing(ws) ==
  /\ readyState[ws] = "OPEN"
  /\ readyState' = [readyState EXCEPT ![ws] = "CLOSING"]
  /\ UNCHANGED <<debuggerSocket, clientSocket, handlers, closeArgs, inbox,
                 errored, nAccepted, nMsgs, uncaught>>

\* an 'error' event: emitted at most once, before the socket's 'close'
\* event; the socket is no longer open when its callback runs
OnError(ws) ==
  /\ readyState[ws] \in {"OPEN", "CLOSING"}
  /\ ~errored[ws]
  /\ errored' = [errored EXCEPT ![ws] = TRUE]
  /\ Gone(handlers[ws].onerror,
          [Transport EXCEPT !.readyState[ws] = "CLOSING"])
  /\ UNCHANGED <<handlers, nAccepted, nMsgs>>

\* the 'close' event: the last event of a socket, whose transport is gone
\* when its callback runs
OnClose(ws) ==
  /\ readyState[ws] \in {"OPEN", "CLOSING"}
  /\ errored' = [errored EXCEPT ![ws] = FALSE]
  /\ Gone(handlers[ws].onclose,
          [Transport EXCEPT !.readyState[ws] = "CLOSED",
                            !.closeArgs[ws] = <<>>,
                            !.inbox[ws] = <<>>])
  /\ UNCHANGED <<handlers, nAccepted, nMsgs>>

\* isChromeConnected()
isChromeConnected == debuggerSocket # NoSocket

InitBroker ==
  /\ debuggerSocket = NoSocket
  /\ clientSocket = NoSocket
  /\ readyState = [s \in Sockets |-> "NONE"]
  /\ handlers = [s \in Sockets |-> NoHandlers]
  /\ closeArgs = [s \in Sockets |-> <<>>]
  /\ inbox = [s \in Sockets |-> <<>>]
  /\ errored = [s \in Sockets |-> FALSE]
  /\ nAccepted = 0
  /\ nMsgs = 0
  /\ uncaught = FALSE

NextBroker ==
  \/ \E url \in Urls : Connect(url) /\ UNCHANGED exceptBroker
  \/ \E ws \in Sockets, data \in Data : OnMessage(ws, data) /\ UNCHANGED exceptBroker
  \/ \E ws \in Sockets : PeerClosing(ws) /\ UNCHANGED exceptBroker
  \/ \E ws \in Sockets : OnError(ws) /\ UNCHANGED exceptBroker
  \/ \E ws \in Sockets : OnClose(ws) /\ UNCHANGED exceptBroker

(***************************************************************************)
(* attachHMRServer.js                                                      *)
(***************************************************************************)

InSeq(x, s) == \E i \in 1..Len(s) : s[i] = x

Range(s) == {s[i] : i \in 1..Len(s)}

Reverse(s) == [i \in 1..Len(s) |-> s[Len(s) + 1 - i]]

\* dep.getName(): the module name of a file
getName(f) ==
  CASE f = "A" -> "app/A"
    [] f = "B" -> "app/B"
    [] OTHER   -> "app/C.json"

\* packagerServer.getModuleForPath(path): the module handle of a file
getModuleForPath(f) == f

\* packagerServer.getShallowDependencies(path) on project w
getShallowDependencies(w, f) == w[f]

\* the dependencies of a resolution response: the files reachable from the
\* entry, in breadth-first order
RECURSIVE Walk(_, _, _)
Walk(w, queue, seen) ==
  IF queue = <<>> THEN seen
  ELSE LET f == Head(queue)
           fresh == SelectSeq(w[f], LAMBDA k : ~InSeq(k, seen))
       IN Walk(w, Tail(queue) \o fresh, seen \o fresh)

ResolutionResponse(w, entry) == Walk(w, <<entry>>, <<entry>>)

\* the { path, name, deps } object built for one dependency
DepObject(w, f) ==
  IF f \in Leaves
    THEN [path |-> f, deps |-> <<>>]
    ELSE [path |-> f, deps |-> getShallowDependencies(w, f)]

\* getInverseDependencies(response): per file, the files that require it
getInverseDependencies(w, response) ==
  [p \in Range(response) |-> {q \in Range(response) : InSeq(p, w[q])}]

\* getDependencies(platform, bundleEntry) on project w: the snapshot
getDependencies(w, platform, bundleEntry) ==
  LET response == ResolutionResponse(w, bundleEntry) IN
  [dependenciesCache |-> response,
   dependenciesModulesCache |->
     [i \in 1..Len(response) |-> [name |-> getName(response[i]), module |-> response[i]]],
   shallowDependencies |-> [p \in Range(response) |-> DepObject(w, p).deps],
   inverseDependenciesCache |-> getInverseDependencies(w, response),
   resolutionResponse |-> response]

\* the session object assigned to client when a connection's snapshot arrives
NewClient(ws, params, snap) ==
  [ws |-> ws,
   platform |-> params.platform,
   bundleEntry |-> params.bundleEntry,
   dependenciesCache |-> snap.dependenciesCache,
   dependenciesModulesCache |-> snap.dependenciesModulesCache,
   shallowDependencies |-> snap.shallowDependencies,
   inverseDependenciesCache |-> snap.inverseDependenciesCache]

\* obj[key] of a map: <<value>>, or <<>> for undefined
Lookup(map, key) == IF key \in DOMAIN map THEN <<map[key]>> ELSE <<>>

\* array || []
OrEmpty(opt) == IF opt = <<>> THEN <<>> ELSE opt[1]

\* arrayEquals(arrayA, arrayB), either of which may be undefined
arrayEquals(optA, optB) ==
  LET arrayA == OrEmpty(optA)
      arrayB == OrEmpty(optB)
  IN /\ Len(arrayA) = Len(arrayB)
     /\ \A i \in 1..Len(arrayA) : arrayA[i] = arrayB[i]

\* client.dependenciesModulesCache[module] is set
HasModule(index, name) == \E i \in 1..Len(index) : index[i].name = name

\* the modules of the new index the old index does not name, in key order
NewModules(oldIndex, newIndex) ==
  LET added == SelectSeq(newIndex, LAMBDA e : ~HasModule(oldIndex, e.name))
  IN [i \in 1..Len(added) |-> added[i].module]

\* the same list without the call of reverse()
modulesToUpdateUnreversed(filename, oldIndex, newIndex) ==
  <<getModuleForPath(filename)>> \o NewModules(oldIndex, newIndex)

\* modulesToUpdate of the structural branch, after modulesToUpdate.reverse()
modulesToUpdate(filename, oldIndex, newIndex) ==
  Reverse(<<getModuleForPath(filename)>> \o NewModules(oldIndex, newIndex))

NoUpdate == [type |-> "none"]

UpdateMessage(modules, inverseDependencies) ==
  [type |-> "update",
   modules |-> [i \in 1..Len(modules) |-> getName(modules[i])],
   inverseDependencies |-> inverseDependencies]

\* a catch callback that passes every error on
ErrorBodyVerbatim(err) ==
  [type |-> err.type, description |-> err.description,
   filename |-> err.filename, lineNumber |-> err.lineNumber]

\* the body built in the catch callback
ErrorBody(err) ==
  IF err.type \in {"TransformError", "NotFoundError", "UnableToResolveError"}
    THEN [type |-> err.type, description |-> err.description,
          filename |-> err.filename, lineNumber |-> err.lineNumber]
    ELSE [type |-> "InternalError",
          description |-> "react-packager has encountered an internal error, please check your terminal error output for more details"]

ErrorMessage(err) == [type |-> "error", body |-> ErrorBody(err)]

\* the local values of a cycle that has not started yet
NewCycle ==
  [pc |-> "new", filename |-> "", deleted |-> FALSE, inv |-> <<>>, resKind |-> "none",
   resolution |-> <<>>, sent |-> <<>>, calls |-> <<>>, threw |-> FALSE]

Call(fn, file, platform, recursive, by) ==
  [fn |-> fn, file |-> file, platform |-> platform, recursive |-> recursive, by |-> by]

\* client.ws.send(message) by cycle c with session cl: the cycle after the
\* call. The send throws 'not opened' on a socket that is not open.
WsSend(c, cl, message) ==
  IF hmrState[cl[1].ws] = "OPEN"
    THEN [c EXCEPT !.sent = Append(@, [ws |-> cl[1].ws, type |-> message.type,
                                       message |-> message])]
    ELSE [c EXCEPT !.threw = TRUE]

\* the last callback (line 267): client.ws.send(update-done), a TypeError
\* when client is null; the cycle ends
SendDone(c, cl) ==
  IF cl = <<>>
    THEN [c EXCEPT !.pc = "end", !.threw = TRUE]
    ELSE [WsSend(c, cl, [type |-> "update-done"]) EXCEPT !.pc = "end"]

\* the callback of lines 256-263, then the last callback: the update or the
\* error is sent, if there is one and a session to send it to
SendUpdate(c, cl, update) ==
  IF cl = <<>> \/ update.type = "none"
    THEN SendDone(c, cl)
    ELSE LET after == WsSend(c, cl, update) IN
         IF after.threw THEN [after EXCEPT !.pc = "end"] ELSE SendDone(after, cl)

\* the catch callback (lines 237-255) for a rejected request, and what follows
Rejected(c, cl, err) == SendUpdate(c, cl, ErrorMessage(err))

\* the callback of lines 198-223: the guards, then the request to the
\* bundler; without the request the cycle runs to its end
Guard(c, cl) ==
  IF cl = <<>>
    THEN SendUpdate(c, cl, NoUpdate)
    ELSE IF Lookup(cl[1].shallowDependencies, c.filename) = <<>>
      THEN SendUpdate(c, cl, NoUpdate)
      ELSE [c EXCEPT !.pc = "bundle",
                     !.calls = Append(@, Call("buildBundleForHMR", cl[1].bundleEntry,
                                              cl[1].platform, "", "listener"))]

\* disconnect()
disconnect ==
  /\ client' = <<>>
  /\ listener' = <<>>

\* wss.on('connection'): the snapshot for the URL's parameters is requested
HmrConnect ==
  /\ nHmr < MaxHmrConn
  /\ LET ws == nHmr + 1 IN
     /\ nHmr' = ws
     /\ hmrState' = [hmrState EXCEPT ![ws] = "OPEN"]
     /\ hmrPhase' = [hmrPhase EXCEPT ![ws] = "pending"]
     /\ hmrParams' = [hmrParams EXCEPT ![ws] = Params(ws)]
  /\ UNCHANGED <<client, listener, hmrErrored, fs, cycle>>
  /\ ended' = <<>>

\* the snapshot arrives: the session is created, the file-change listener is
\* set and the socket's 'error' and 'close' callbacks are registered
HmrSession(ws) ==
  /\ hmrPhase[ws] = "pending"
  /\ LET snap == getDependencies(fs, hmrParams[ws].platform, hmrParams[ws].bundleEntry) IN
     /\ client' = <<NewClient(ws, hmrParams[ws], snap)>>
     /\ listener' = <<[owner |-> ws,
                       inverseDependenciesCache |-> snap.inverseDependenciesCache]>>
  /\ hmrPhase' = [hmrPhase EXCEPT ![ws] = "attached"]
  /\ hmrParams' = [hmrParams EXCEPT ![ws] = [platform |-> "", bundleEntry |-> ""]]
  /\ UNCHANGED <<hmrState, hmrErrored, nHmr, fs, cycle>>
  /\ ended' = <<>>

\* an 'error' event of an HMR socket, emitted at most once and before its
\* 'close' event: client.ws.on('error') if registered
HmrError(ws) ==
  /\ hmrState[ws] \in {"OPEN", "CLOSING"}
  /\ ~hmrErrored[ws]
  /\ hmrErrored' = [hmrErrored EXCEPT ![ws] = TRUE]
  /\ hmrState' = [hmrState EXCEPT ![ws] = "CLOSING"]
  /\ IF hmrPhase[ws] = "attached" THEN disconnect ELSE UNCHANGED <<client, listener>>
  /\ UNCHANGED <<hmrPhase, hmrParams, nHmr, fs, cycle>>
  /\ ended' = <<>>

\* the 'close' event of an HMR socket: client.ws.on('close') if registered
HmrClose(ws) ==
  /\ hmrState[ws] \in {"OPEN", "CLOSING"}
  /\ hmrState' = [hmrState EXCEPT ![ws] = "CLOSED"]
  /\ hmrErrored' = [hmrErrored EXCEPT ![ws] = FALSE]
  /\ IF hmrPhase[ws] = "attached" THEN disconnect ELSE UNCHANGED <<client, listener>>
  /\ UNCHANGED <<hmrPhase, hmrParams, nHmr, fs, cycle>>
  /\ ended' = <<>>

\* the cycles in flight
InFlight == BagToSet(cycle)

\* cycle c goes on as d; a cycle that has run its last callback is no longer
\* in flight
Advance(c, d) ==
  /\ cycle' = (cycle (-) SetToBag({c})) (+) (IF d.pc = "end" THEN EmptyBag ELSE SetToBag({d}))
  /\ ended' = IF d.pc = "end" THEN <<d>> ELSE <<>>

\* the listener's synchronous part (lines 125-131) for a change of filename:
\* update-start is sent, then the cycle waits for the stat promise and, if
\* the file still exists, for its shallow dependencies
ListenerStart(filename, deleted) ==
  LET started == WsSend([NewCycle EXCEPT
                           !.filename = filename,
                           !.inv = listener[1].inverseDependenciesCache],
                        client, [type |-> "update-start"])
  IN IF started.threw
       THEN cycle
       ELSE cycle (+) SetToBag({
              IF deleted
                THEN [started EXCEPT !.pc = "removed", !.deleted = TRUE]
                ELSE [started EXCEPT
                        !.pc = "shallow",
                        !.calls = Append(@, Call("getShallowDependencies", filename,
                                                 "", "", "listener"))]})

\* the cycle of a change of filename, waiting for its shallow dependencies,
\* when no other cycle is in flight
OnlyCycle(filename) ==
  SetToBag({[WsSend([NewCycle EXCEPT
                       !.filename = filename,
                       !.inv = listener[1].inverseDependenciesCache],
                    client, [type |-> "update-start"])
              EXCEPT !.pc = "shallow",
                     !.calls = Append(@, Call("getShallowDependencies", filename,
                                              "", "", "listener"))]})

\* a file is saved with require list deps, or removed: the packager calls the
\* file-change listener, if one is set
FileChange(filename, deleted, deps) ==
  /\ fs' = IF deleted THEN fs ELSE [fs EXCEPT ![filename] = deps]
  /\ IF listener = <<>> \/ client = <<>>
       THEN UNCHANGED cycle
       ELSE /\ BagCardinality(cycle) < MaxCycles
            /\ cycle' = ListenerStart(filename, deleted)
  /\ ended' = <<>>
  /\ UNCHANGED <<client, listener, hmrState, hmrPhase, hmrParams, hmrErrored, nHmr>>

\* the stat promise of a removed file rejects (line 264): nothing but the
\* last callback runs
StatRejected(c) ==
  /\ c.pc = "removed"
  /\ Advance(c, SendDone(c, client))
  /\ UNCHANGED <<client, listener, hmrState, hmrPhase, hmrParams, hmrErrored, nHmr, fs>>

\* the same callback without the test of line 141: every change is taken for
\* a structural one
ShallowResolvedFull(c) ==
  /\ c.pc = "shallow"
  /\ IF client = <<>>
       THEN Advance(c, Guard([c EXCEPT !.resKind = "array", !.resolution = <<>>], client))
       ELSE Advance(c,
              [c EXCEPT !.pc = "full",
                        !.calls = Append(@, Call("getDependencies", client[1].bundleEntry,
                                                 client[1].platform, "unset", "builder"))])
  /\ UNCHANGED <<client, listener, hmrState, hmrPhase, hmrParams, hmrErrored, nHmr, fs>>

\* getShallowDependencies(filename) resolves: the callback of lines 132-197
\* up to its next request
ShallowResolved(c) ==
  LET deps == getShallowDependencies(fs, c.filename) IN
  /\ c.pc = "shallow"
  /\ IF client = <<>>
       THEN Advance(c, Guard([c EXCEPT !.resKind = "array", !.resolution = <<>>], client))
       ELSE LET oldDependencies == Lookup(client[1].shallowDependencies, c.filename) IN
            IF arrayEquals(<<deps>>, oldDependencies)
              THEN Advance(c,
                     [c EXCEPT !.pc = "nonrec",
                               !.calls = Append(@, Call("getDependencies", c.filename,
                                                        client[1].platform, "true", "listener"))])
              ELSE Advance(c,
                     [c EXCEPT !.pc = "full",
                               !.calls = Append(@, Call("getDependencies", client[1].bundleEntry,
                                                        client[1].platform, "unset", "builder"))])
  /\ UNCHANGED <<client, listener, hmrState, hmrPhase, hmrParams, hmrErrored, nHmr, fs>>

\* the re-resolution scoped to filename resolves (lines 151-155):
\* response.copy({dependencies: [module]}), then the guards
NonrecResolved(c) ==
  /\ c.pc = "nonrec"
  /\ Advance(c, Guard([c EXCEPT !.resKind = "response",
                                  !.resolution = <<getModuleForPath(c.filename)>>], client))
  /\ UNCHANGED <<client, listener, hmrState, hmrPhase, hmrParams, hmrErrored, nHmr, fs>>

\* an invalidation that replaces the file list only
InvalidateFileList(session, snap) ==
  [session EXCEPT !.dependenciesCache = snap.dependenciesCache]

\* the caches of the session replaced by those of snapshot snap (lines 189-192)
Invalidate(session, snap) ==
  [session EXCEPT
     !.dependenciesCache = snap.dependenciesCache,
     !.dependenciesModulesCache = snap.dependenciesModulesCache,
     !.shallowDependencies = snap.shallowDependencies]

\* the full snapshot arrives: the callback of lines 160-197, then the guards
FullResolved(c) ==
  /\ c.pc = "full"
  /\ IF client = <<>>
       THEN /\ Advance(c, Guard([c EXCEPT !.resKind = "object", !.resolution = <<>>], client))
            /\ UNCHANGED client
       ELSE LET snap == getDependencies(fs, client[1].platform, client[1].bundleEntry)
                next == <<Invalidate(client[1], snap)>>
            IN
            /\ Advance(c, Guard([c EXCEPT !.resKind = "response",
                                            !.resolution = modulesToUpdate(c.filename,
                                                             client[1].dependenciesModulesCache,
                                                             snap.dependenciesModulesCache)], next))
            /\ client' = next
  /\ UNCHANGED <<listener, hmrState, hmrPhase, hmrParams, hmrErrored, nHmr, fs>>

\* the message built from the bundle (lines 224-236)
BundleUpdate(c, cl, empty) ==
  IF cl = <<>> \/ empty \/ c.resolution = <<>>
    THEN NoUpdate
    ELSE UpdateMessage(c.resolution, c.inv)

\* buildBundleForHMR resolves with a bundle that is empty or holds the
\* modules of the resolution: the callbacks of lines 223-268
BundleResolved(c, empty) ==
  /\ c.pc = "bundle"
  /\ Advance(c, SendUpdate(c, client, BundleUpdate(c, client, empty)))
  /\ UNCHANGED <<client, listener, hmrState, hmrPhase, hmrParams, hmrErrored, nHmr, fs>>

\* a request of the cycle (getShallowDependencies, getDependencies,
\* getModuleForPath, buildBundleForHMR) fails with an error of the given type
RequestRejected(c, type) ==
  /\ c.pc \in {"shallow", "nonrec", "full", "bundle"}
  /\ Advance(c, Rejected(c, client, PackagerError(type, c.filename)))
  /\ UNCHANGED <<client, listener, hmrState, hmrPhase, hmrParams, hmrErrored, nHmr, fs>>

InitHMR ==
  /\ client = <<>>
  /\ listener = <<>>
  /\ hmrState = [s \in HmrSockets |-> "NONE"]
  /\ hmrPhase = [s \in HmrSockets |-> "none"]
  /\ hmrParams = [s \in HmrSockets |-> [platform |-> "", bundleEntry |-> ""]]
  /\ hmrErrored = [s \in HmrSockets |-> FALSE]
  /\ nHmr = 0
  /\ fs = [f \in Files |-> IF f = "A" THEN <<"B">> ELSE IF f = "B" THEN <<"C">> ELSE <<>>]
  /\ cycle = EmptyBag
  /\ ended = <<>>

NextHMR ==
  \/ HmrConnect /\ UNCHANGED exceptHMR
  \/ \E ws \in HmrSockets : HmrSession(ws) /\ UNCHANGED exceptHMR
  \/ \E ws \in HmrSockets : HmrError(ws) /\ UNCHANGED exceptHMR
  \/ \E ws \in HmrSockets : HmrClose(ws) /\ UNCHANGED exceptHMR
  \/ \E f \in Watched : \E d \in DepChoices(f) : FileChange(f, FALSE, d) /\ UNCHANGED exceptHMR
  \/ \E f \in Watched : FileChange(f, TRUE, <<>>) /\ UNCHANGED exceptHMR
  \/ \E c \in InFlight : StatRejected(c) /\ UNCHANGED exceptHMR
  \/ \E c \in InFlight : ShallowResolved(c) /\ UNCHANGED exceptHMR
  \/ \E c \in InFlight : NonrecResolved(c) /\ UNCHANGED exceptHMR
  \/ \E c \in InFlight : FullResolved(c) /\ UNCHANGED exceptHMR
  \/ \E c \in InFlight, empty \in BOOLEAN : BundleResolved(c, empty) /\ UNCHANGED exceptHMR
  \/ \E c \in InFlight, t \in Failures : RequestRejected(c, t) /\ UNCHANGED exceptHMR

\* the projects of the classification: A requires any of B and C in either
\* order, B requires C or nothing
Worlds ==
  {[f \in Files |-> IF f = "A" THEN a ELSE IF f = "B" THEN b ELSE <<>>] :
     a \in {<<>>, <<"B">>, <<"C">>, <<"B", "C">>, <<"C", "B">>},
     b \in {<<>>, <<"C">>}}

\* one session, created when the project was old, and one change cycle that
\* has just started on a file of the project as it is now; every cycle
\* between the two has ended with an error, so the session still holds the
\* snapshot of its creation
InitClassify ==
  /\ \E old \in Worlds :
       LET snap == getDependencies(old, Params(1).platform, Params(1).bundleEntry) IN
       /\ client = <<NewClient(1, Params(1), snap)>>
       /\ listener = <<[owner |-> 1,
                        inverseDependenciesCache |-> snap.inverseDependenciesCache]>>
  /\ hmrState = [s \in HmrSockets |-> IF s = 1 THEN "OPEN" ELSE "NONE"]
  /\ hmrPhase = [s \in HmrSockets |-> IF s = 1 THEN "attached" ELSE "none"]
  /\ hmrParams = [s \in HmrSockets |-> [platform |-> "", bundleEntry |-> ""]]
  /\ hmrErrored = [s \in HmrSockets |-> FALSE]
  /\ nHmr = 1
  /\ fs \in Worlds
  /\ \E filename \in Files : cycle = OnlyCycle(filename)
  /\ ended = <<>>

\* the steps of the cycle
NextClassify ==
  \/ \E c \in InFlight : ShallowResolved(c) /\ UNCHANGED exceptHMR
  \/ \E c \in InFlight : NonrecResolved(c) /\ UNCHANGED exceptHMR
  \/ \E c \in InFlight : FullResolved(c) /\ UNCHANGED exceptHMR
  \/ \E c \in InFlight, empty \in BOOLEAN : BundleResolved(c, empty) /\ UNCHANGED exceptHMR
  \/ \E c \in InFlight, t \in Failures : RequestRejected(c, t) /\ UNCHANGED exceptHMR

\* the errors a rejected request can carry: the three types the callback
\* passes on, other types, and an error without a type
Descriptions == {"Unexpected token", "Unable to resolve module"}
LineNumbers == {7, 12}
Errors ==
  [type : ErrorTypes \cup {"InternalError", NULL}, description : Descriptions,
   filename : Files, lineNumber : LineNumbers]

\* the catch callback of the bundle request, up to the JSON text
Catch ==
  /\ error # <<>>
  /\ body = <<>>
  /\ body' = ErrorMessage(error).body
  /\ UNCHANGED error

NoError ==
  /\ error = <<>>
  /\ body = <<>>

InitErrors ==
  /\ error \in Errors
  /\ body = <<>>

NextErrors ==
  \/ Catch /\ UNCHANGED exceptErr

(***************************************************************************)
(* AsyncStorage                                                            *)
(***************************************************************************)

\* the longest batch handed to multiSet / multiRemove
MaxBatch == 2

\* strings are the sequences of their characters
AppIDs == {<<>>, <<"a">>, <<"b">>}
Keys == {<<"a">>, <<"c">>}
Values == {"", "v"}
Batches(S) == UNION {[1..n -> S] : n \in 1..MaxBatch}

\* prefixKey throws 'Global appID must be set.'
AppIDMissing == Len(appID) < 1

prefixKey(key) == appID \o <<"-">> \o key

\* String.prototype.includes
includes(str, sub) ==
  \E i \in 0..(Len(str) - Len(sub)) : SubSeq(str, i + 1, i + Len(sub)) = sub

keyAllowed(key) == includes(key, appID)

\* how a call ended: it threw, or its promise was rejected or resolved
Outcome(op, status, value) == [op |-> op, status |-> status, value |-> value]

\* RCTAsyncStorage.multiSet(pairs), multiRemove(keys) without an error
NativeSet(pairs) ==
  [k \in DOMAIN store \cup {pairs[i][1] : i \in DOMAIN pairs} |->
     IF \E i \in DOMAIN pairs : pairs[i][1] = k
       THEN LET last == CHOOSE i \in DOMAIN pairs :
                          /\ pairs[i][1] = k
                          /\ \A j \in DOMAIN pairs : pairs[j][1] = k => j <= i
            IN pairs[last][2]
       ELSE store[k]]

NativeRemove(keys) == [k \in DOMAIN store \ keys |-> store[k]]

\* the value getItem(key) resolves to
getItemValue(key) ==
  LET k == prefixKey(key) IN
  IF k \in DOMAIN store /\ store[k] # "" THEN store[k] ELSE NULL

\* the keys getAllKeys() resolves to
getAllKeysValue == {k \in DOMAIN store : keyAllowed(k)}

\* a call of one native request: prefixKey throws before the promise exists,
\* a native error rejects it, else the request is made and it resolves
Request(op, ok, next, value) ==
  IF AppIDMissing
    THEN /\ result' = Outcome(op, "threw", NULL)
         /\ UNCHANGED store
    ELSE IF ~ok
      THEN /\ result' = Outcome(op, "rejected", NULL)
           /\ UNCHANGED store
      ELSE /\ result' = Outcome(op, "resolved", value)
           /\ store' = next

getItem(key, ok) ==
  /\ Request("getItem", ok, store, IF AppIDMissing THEN NULL ELSE getItemValue(key))
  /\ UNCHANGED appID

setItem(key, value, ok) ==
  /\ Request("setItem", ok, NativeSet(<<<<prefixKey(key), value>>>>), NULL)
  /\ UNCHANGED appID

removeItem(key, ok) ==
  /\ Request("removeItem", ok, NativeRemove({prefixKey(key)}), NULL)
  /\ UNCHANGED appID

multiSet(keyValuePairs, ok) ==
  /\ Request("multiSet", ok,
             NativeSet([i \in DOMAIN keyValuePairs |->
                          <<prefixKey(keyValuePairs[i][1]), keyValuePairs[i][2]>>]),
             NULL)
  /\ UNCHANGED appID

\* multiRemove(keys) for the clear() of a list that may be empty: map calls
\* prefixKey once per element
multiRemoveNext(keys) == NativeRemove({prefixKey(k) : k \in keys})

multiRemove(keys, ok) ==
  /\ Request("multiRemove", ok,
             multiRemoveNext({keys[i] : i \in DOMAIN keys}), NULL)
  /\ UNCHANGED appID

getAllKeys(ok) ==
  /\ result' = IF ok THEN Outcome("getAllKeys", "resolved", getAllKeysValue)
                     ELSE Outcome("getAllKeys", "rejected", NULL)
  /\ UNCHANGED <<appID, store>>

\* clear(): getAllKeys(), then multiRemove of what it resolved to; a throw of
\* prefixKey inside the then-callback and a native error reject the promise
clear(ok, okRemove) ==
  /\ IF ~ok
       THEN /\ result' = Outcome("clear", "rejected", NULL)
            /\ UNCHANGED store
       ELSE IF (getAllKeysValue # {} /\ AppIDMissing) \/ ~okRemove
         THEN /\ result' = Outcome("clear", "rejected", NULL)
              /\ UNCHANGED store
         ELSE /\ result' = Outcome("clear", "resolved", NULL)
              /\ store' = multiRemoveNext(getAllKeysValue)
  /\ UNCHANGED appID

\* the host starts another app on the same native storage
SetAppID(a) ==
  /\ a # appID
  /\ appID' = a
  /\ result' = <<>>
  /\ UNCHANGED store

NoStorage ==
  /\ appID = <<>>
  /\ store = <<>>
  /\ result = <<>>

InitStorage ==
  /\ appID \in AppIDs
  /\ store = <<>>
  /\ result = <<>>

NextStorage ==
  \/ \E key \in Keys, ok \in BOOLEAN : getItem(key, ok) /\ UNCHANGED exceptStorage
  \/ \E key \in Keys, value \in Values, ok \in BOOLEAN :
       setItem(key, value, ok) /\ UNCHANGED exceptStorage
  \/ \E key \in Keys, ok \in BOOLEAN : removeItem(key, ok) /\ UNCHANGED exceptStorage
  \/ \E pairs \in Batches(Keys \X Values), ok \in BOOLEAN :
       multiSet(pairs, ok) /\ UNCHANGED exceptStorage
  \/ \E keys \in Batches(Keys), ok \in BOOLEAN :
       multiRemove(keys, ok) /\ UNCHANGED exceptStorage
  \/ \E ok \in BOOLEAN : getAllKeys(ok) /\ UNCHANGED exceptStorage
  \/ \E ok \in BOOLEAN, okRemove \in BOOLEAN : clear(ok, okRemove) /\ UNCHANGED exceptStorage
  \/ \E a \in AppIDs : SetAppID(a) /\ UNCHANGED exceptStorage

Init == InitBroker /\ InitHMR /\ NoError /\ NoStorage

\* the broker alone
SpecBroker == Init /\ [][NextBroker]_vars

\* the HMR server alone
SpecHMR == Init /\ [][NextHMR]_vars

\* one change cycle of one session, over every pair of a cached and a
\* current project
ClassifyInit == InitBroker /\ InitClassify /\ NoError /\ NoStorage
SpecClassify == ClassifyInit /\ [][NextClassify]_vars

\* the catch callback applied to every error
ErrorsInit == InitBroker /\ InitHMR /\ InitErrors /\ NoStorage
SpecErrors == ErrorsInit /\ [][NextErrors]_vars

\* AsyncStorage alone
StorageInit == InitBroker /\ InitHMR /\ NoError /\ InitStorage
SpecStorage == StorageInit /\ [][NextStorage]_vars

(***************************************************************************)
(* Properties of the broker                                                *)
(***************************************************************************)

\* the messages a socket has been handed
Received(ws) == {inbox[ws][i] : i \in 1..Len(inbox[ws])}

\* a connection is active: it is open, its callbacks are installed (it was
\* neither rejected nor evicted) and the broker forwards its messages
Active(ws, role) ==
  /\ readyState[ws] = "OPEN"
  /\ handlers[ws].onmessage = role

\* a connection is attached from the broker's side: its callbacks are
\* installed and none of its 'error' / 'close' events has been emitted
Attached(ws, role) ==
  /\ readyState[ws] \in {"OPEN", "CLOSING"}
  /\ ~errored[ws]
  /\ closeArgs[ws] = <<>>
  /\ handlers[ws].onmessage = role

\* C5: a debugger that connects while the debugger slot is taken is closed at
\* once (1011) and gets no callbacks, and the occupant keeps the slot, its
\* callbacks and its open socket; a client that connects while the client
\* slot is taken becomes the occupant, open and forwarding, and the previous
\* occupant is no longer open.
C5_SingleOccupancyOnConnect ==
  [][\A url \in Urls :
       Connect(url) =>
         LET ws == nAccepted + 1 IN
         /\ (Role(url) = "debugger" /\ debuggerSocket # NoSocket) =>
               /\ debuggerSocket' = debuggerSocket
               /\ readyState'[ws] = "CLOSING"
               /\ Len(closeArgs'[ws]) = 2
             /\ closeArgs'[ws][1] = 1011
               /\ handlers'[ws] = NoHandlers
               /\ handlers'[debuggerSocket] = handlers[debuggerSocket]
               /\ readyState'[debuggerSocket] = readyState[debuggerSocket]
         /\ (Role(url) = "client" /\ clientSocket # NoSocket) =>
               /\ clientSocket' = ws
               /\ readyState'[ws] = "OPEN"
               /\ handlers'[ws].onmessage = "client"
               /\ readyState'[clientSocket] # "OPEN"
               /\ readyState[clientSocket] = "OPEN" => closeArgs'[clientSocket][1] = 1011
    ]_vars

\* a second debugger has been turned away while the first one holds the slot
C5_Witness ==
  \E ws \in Sockets :
    /\ closeArgs[ws] = <<1011, "Another debugger is already connected">>
    /\ debuggerSocket # NoSocket
    /\ debuggerSocket < ws
    /\ Active(debuggerSocket, "debugger")

\* a second client has replaced the first one, which was closed by the broker
C5_WitnessEviction ==
  \E ws \in Sockets :
    /\ closeArgs[ws] = <<1011, "Another client connected">>
    /\ clientSocket # NoSocket
    /\ clientSocket > ws
    /\ Active(clientSocket, "client")

\* C6: in every reachable state at most one debugger connection and at most
\* one client connection is active, and every active connection is the
\* occupant of its role's slot.
C6_AtMostOneActivePerRole ==
  /\ Cardinality({ws \in Sockets : Active(ws, "debugger")}) <= 1
  /\ Cardinality({ws \in Sockets : Active(ws, "client")}) <= 1
  /\ \A ws \in Sockets : Active(ws, "debugger") => debuggerSocket = ws
  /\ \A ws \in Sockets : Active(ws, "client") => clientSocket = ws

\* C7: when a client's close or error callback runs, the client slot is
\* emptied and the debugger in the debugger slot, if its socket is open, is
\* handed the $disconnected message; when a debugger's close or error
\* callback runs, no socket is handed any message.
C7_DisconnectNotification ==
  [][\A ws \in Sockets :
       (OnClose(ws) \/ OnError(ws)) =>
         /\ handlers[ws].onclose = "client" =>
               /\ clientSocket' = NoSocket
               /\ debuggerSocket' = debuggerSocket
               /\ (debuggerSocket # NoSocket /\ debuggerSocket # ws
                     /\ readyState[debuggerSocket] = "OPEN") =>
                     inbox'[debuggerSocket] = Append(inbox[debuggerSocket], Disconnected)
         /\ handlers[ws].onclose = "debugger" =>
               \A other \in Sockets \ {ws} : inbox'[other] = inbox[other]
    ]_vars

\* a debugger has been told that the client is gone, and the client slot is empty
C7_Witness ==
  /\ clientSocket = NoSocket
  /\ debuggerSocket # NoSocket
  /\ Disconnected \in Received(debuggerSocket)

\* C9: a message from the occupant of one slot is appended, unmodified, to
\* what the occupant of the other slot has been handed, when that slot is
\* taken and its socket accepts the send; otherwise nothing is delivered.
\* In both cases no exception leaves the callback and the slots, the
\* callbacks and the sockets' states stay as they were.
C9_Forwarding ==
  [][\A ws \in Sockets, data \in Data :
       (OnMessage(ws, data) /\ ws \in {debuggerSocket, clientSocket}) =>
         LET peer == IF ws = debuggerSocket THEN clientSocket ELSE debuggerSocket IN
         /\ inbox' = IF peer # NoSocket /\ readyState[peer] = "OPEN"
                        THEN [inbox EXCEPT ![peer] = Append(@, data)]
                        ELSE inbox
         /\ uncaught' = FALSE
         /\ UNCHANGED <<debuggerSocket, clientSocket, readyState, handlers, closeArgs>>
    ]_vars

\* the client has been handed a message of the debugger
C9_Witness ==
  /\ debuggerSocket # NoSocket
  /\ clientSocket # NoSocket
  /\ Received(clientSocket) \cap Data # {}

\* a message was dropped because the peer's send threw
C9_WitnessDropped ==
  /\ nMsgs = 1
  /\ debuggerSocket # NoSocket
  /\ clientSocket # NoSocket
  /\ readyState[clientSocket] = "CLOSING"
  /\ readyState[debuggerSocket] = "OPEN"
  /\ inbox[clientSocket] = <<>>
  /\ inbox[debuggerSocket] = <<>>

\* C10: isChromeConnected() is true exactly when some debugger connection is
\* attached: accepted as a debugger, its callbacks installed, and none of its
\* 'error' / 'close' events emitted yet.
C10_IsChromeConnectedIffAttached ==
  isChromeConnected <=> \E ws \in Sockets : Attached(ws, "debugger")

\* the connection was closed by the else branch of the connection handler
Roleless(ws) == closeArgs[ws] = <<1011, "Missing role param">>

\* C14: a connection whose URL names neither role is closed with code 1011
\* and a reason, gets no callbacks and leaves both slots as they were; as long
\* as it lasts it is in neither slot, nothing is handed to it, and a message
\* it sends is handed to no one.
C14_UnknownRole ==
  [][/\ \A url \in Urls :
          (Connect(url) /\ ~url.hasDebugger /\ ~url.hasClient) =>
             LET ws == nAccepted + 1 IN
             /\ Len(closeArgs'[ws]) = 2
             /\ closeArgs'[ws][1] = 1011
             /\ closeArgs'[ws][2] # ""
             /\ readyState'[ws] # "OPEN"
             /\ handlers'[ws] = NoHandlers
             /\ UNCHANGED <<debuggerSocket, clientSocket, inbox>>
     /\ \A ws \in Sockets :
          Roleless(ws)' =>
             /\ ws \notin {debuggerSocket', clientSocket'}
             /\ handlers'[ws] = NoHandlers
             /\ inbox'[ws] = <<>>
     /\ \A ws \in Sockets, data \in Data :
          (OnMessage(ws, data) /\ Roleless(ws)) =>
             UNCHANGED <<debuggerSocket, clientSocket, inbox, readyState, handlers>>
    ]_vars

\* a connection without a role has sent a message while both slots were taken
C14_Witness ==
  /\ \E ws \in Sockets : Roleless(ws)
  /\ nMsgs = 1
  /\ debuggerSocket # NoSocket
  /\ clientSocket # NoSocket
  /\ \A ws \in Sockets : inbox[ws] = <<>>

\* C23: a client that connects while the client slot is taken removes the
\* callbacks of the previous occupant and takes the slot; the callbacks of a
\* connection are never installed again, and a close, error or message event
\* of a connection without callbacks leaves both slots and everything the
\* other sockets have been handed as they are: nothing is forwarded and no
\* $disconnected is sent.
C23_EvictionSilences ==
  [][/\ \A url \in Urls :
          (Connect(url) /\ Role(url) = "client" /\ clientSocket # NoSocket) =>
             /\ handlers'[clientSocket] = NoHandlers
             /\ clientSocket' = nAccepted + 1
     /\ \A ws \in Sockets :
          (readyState[ws] # "NONE" /\ handlers[ws] = NoHandlers) =>
             handlers'[ws] = NoHandlers
     /\ \A ws \in Sockets :
          (handlers[ws] = NoHandlers
             /\ (OnClose(ws) \/ OnError(ws) \/ \E data \in Data : OnMessage(ws, data))) =>
                /\ UNCHANGED <<debuggerSocket, clientSocket>>
                /\ \A other \in Sockets \ {ws} : inbox'[other] = inbox[other]
    ]_vars

\* the 'error' event of a client that a newer client has replaced was
\* emitted; the newer client holds the slot and the debugger was told nothing
C23_Witness ==
  \E ws \in Sockets :
    /\ closeArgs[ws] = <<1011, "Another client connected">>
    /\ errored[ws]
    /\ clientSocket # NoSocket
    /\ clientSocket > ws
    /\ Active(clientSocket, "client")
    /\ debuggerSocket # NoSocket
    /\ readyState[debuggerSocket] = "OPEN"
    /\ inbox[debuggerSocket] = <<>>

\* the broker closed the client because its debugger was gone, and the
\* client's close event is still to come
ClosedForDebugger(ws) == closeArgs[ws] = <<1011, "Debugger was disconnected">>

\* C25: when the debugger in the debugger slot closes or errors, the slot is
\* emptied and a client in the client slot is closed with 1011 and stays in
\* its slot; a debugger enters the debugger slot only by connecting; when
\* the close event of a client closed that way is handled, the client is no
\* longer in the client slot, the debugger slot is left as it is, and the
\* $disconnected message is handed to the debugger in the debugger slot, if
\* any, and to no other connection.
C25_DebuggerGone ==
  [][/\ \A ws \in Sockets :
          ((OnClose(ws) \/ OnError(ws)) /\ ws = debuggerSocket) =>
             /\ debuggerSocket' = NoSocket
             /\ clientSocket' = clientSocket
             /\ clientSocket # NoSocket =>
                  /\ readyState'[clientSocket] # "OPEN"
                  /\ readyState[clientSocket] = "OPEN" => ClosedForDebugger(clientSocket)'
     /\ (debuggerSocket' # debuggerSocket /\ debuggerSocket' # NoSocket) =>
          /\ debuggerSocket' = nAccepted + 1
          /\ nAccepted' = nAccepted + 1
     /\ \A ws \in Sockets :
          (OnClose(ws) /\ ClosedForDebugger(ws)) =>
             /\ clientSocket' # ws
             /\ ws = clientSocket => clientSocket' = NoSocket
             /\ debuggerSocket' = debuggerSocket
             /\ \A other \in Sockets \ {ws} :
                  inbox'[other] # inbox[other] =>
                     /\ other = debuggerSocket
                     /\ handlers[ws].onclose = "client"
                     /\ inbox'[other] = Append(inbox[other], Disconnected)
    ]_vars

\* the statement with both slots empty once the close event of the client
\* is handled
C25_BothSlotsEmpty ==
  [][\A ws \in Sockets :
       (OnClose(ws) /\ ClosedForDebugger(ws)) =>
          /\ clientSocket' = NoSocket
          /\ debuggerSocket' = NoSocket
    ]_vars

\* the debugger is gone, the client it left behind has been closed by the
\* broker and is still in its slot, and another debugger has connected
C25_Witness ==
  \E ws \in Sockets :
    /\ ClosedForDebugger(ws)
    /\ clientSocket = ws
    /\ debuggerSocket # NoSocket
    /\ debuggerSocket > ws
    /\ Active(debuggerSocket, "debugger")

(***************************************************************************)
(* Properties of the HMR server                                            *)
(***************************************************************************)

\* the types of the messages a cycle has sent, in order
Types(c) == [i \in 1..Len(c.sent) |-> c.sent[i].type]

\* the connection a cycle started on: the one its update-start was sent on
StartWs(c) == c.sent[1].ws

\* update-start, then at most one update or error, then update-done
Framed(types) ==
  \/ types = <<"update-start", "update-done">>
  \/ types = <<"update-start", "update", "update-done">>
  \/ types = <<"update-start", "error", "update-done">>

\* the step takes cycle c to d, which stays in flight
Moved(c, d) == cycle' = (cycle (-) SetToBag({c})) (+) SetToBag({d})

\* the cycle has requested the full snapshot through getDependencies(platform, bundleEntry)
CalledBuilder(c) == \E i \in 1..Len(c.calls) : c.calls[i].by = "builder"

\* C1: a cycle whose connection is still open when the cycle ends (it was not
\* closed while the cycle ran) has sent exactly update-start, then at most one
\* message that is update or error, then update-done.
C1_ProtocolFraming ==
  (ended # <<>> /\ hmrState[StartWs(ended[1])] = "OPEN") => Framed(Types(ended[1]))

\* C2: the last message of a cycle that ends is update-done, whatever the
\* pipeline did, unless the cycle's connection has been closed by then; a
\* cycle whose connection has been closed by then has sent nothing but the
\* update-start of its beginning.
C2_UpdateDoneFinal ==
  ended # <<>> =>
    LET c == ended[1] IN
    IF hmrState[StartWs(c)] = "OPEN"
      THEN c.sent[Len(c.sent)].type = "update-done"
      ELSE Types(c) = <<"update-start">>

\* C3: when the shallow dependencies fetched for the changed file equal the
\* list the session holds for it, the cycle asks for the re-resolution of the
\* file and not for the full snapshot, the resolution it hands to the bundler
\* is the changed file's handle alone, and neither step changes the session.
C3_ShallowEquivalent ==
  [][\A c \in InFlight :
       /\ (/\ ShallowResolved(c)
           /\ client # <<>>
           /\ c.filename \in DOMAIN client[1].shallowDependencies
           /\ getShallowDependencies(fs, c.filename) = client[1].shallowDependencies[c.filename])
          => /\ client' = client
             /\ \E d \in BagToSet(cycle') :
                  /\ Moved(c, d)
                  /\ d.pc = "nonrec"
                  /\ ~CalledBuilder(d)
       /\ NonrecResolved(c)
          => /\ client' = client
             /\ \A d \in BagToSet(cycle') :
                  (Moved(c, d) /\ d.pc = "bundle") =>
                    /\ d.resolution = <<getModuleForPath(c.filename)>>
                    /\ ~CalledBuilder(d)
    ]_vars

\* a shallow-equivalent change has been handed to the bundler
C3_Witness ==
  \E c \in InFlight :
    /\ c.pc = "bundle"
    /\ ~CalledBuilder(c)
    /\ c.resolution = <<getModuleForPath(c.filename)>>
    /\ client # <<>>
    /\ c.filename \in DOMAIN client[1].shallowDependencies

\* the modules of index the names of which are not in names, in the order of index
Discovered(index, names) ==
  LET added == SelectSeq(index, LAMBDA e : e.name \notin names)
  IN [i \in 1..Len(added) |-> added[i].module]

\* C4: when the full snapshot of a structural change arrives, the sequence
\* handed to the bundler is the reverse of the changed file followed by the
\* modules of the new index whose names the previous index of the session did
\* not hold, in the order of the new index: the changed file is last.
C4_StructuralOrdering ==
  [][\A c \in InFlight :
       (FullResolved(c) /\ client # <<>>) =>
         \A d \in BagToSet(cycle') :
           (Moved(c, d) /\ d.pc = "bundle") =>
             LET old == {client[1].dependenciesModulesCache[i].name :
                           i \in 1..Len(client[1].dependenciesModulesCache)}
                 new == Discovered(client'[1].dependenciesModulesCache, old)
             IN /\ d.resolution = Reverse(<<getModuleForPath(c.filename)>> \o new)
                /\ d.resolution[Len(d.resolution)] = getModuleForPath(c.filename)
    ]_vars

\* a structural change that uncovered two modules has been handed to the bundler
C4_Witness ==
  \E c \in InFlight :
    /\ c.pc = "bundle"
    /\ CalledBuilder(c)
    /\ c.resolution = <<"C", "B", "A">>

\* C8: the cycle of a removed file whose connection is still open when the
\* cycle ends has sent update-start and update-done and nothing else, and has
\* called neither getShallowDependencies nor getDependencies nor
\* buildBundleForHMR.
C8_DeletedFile ==
  (/\ ended # <<>>
   /\ ended[1].pc = "end"
   /\ ended[1].deleted
   /\ hmrState[StartWs(ended[1])] = "OPEN")
  => /\ Types(ended[1]) = <<"update-start", "update-done">>
     /\ ended[1].calls = <<>>


\* C11: when a request of a cycle fails while the cycle's connection is open,
\* the cycle sends exactly one error message and then update-done on that
\* connection, the connection stays open, and the session and the
\* file-change listener stay installed.
C11_FailureContained ==
  [][\A c \in InFlight : \A t \in Failures :
       (RequestRejected(c, t) /\ hmrState[StartWs(c)] = "OPEN") =>
          /\ ended' # <<>>
          /\ Types(ended'[1]) = <<"update-start", "error", "update-done">>
          /\ \A i \in 1..Len(ended'[1].sent) : ended'[1].sent[i].ws = StartWs(c)
          /\ hmrState' = hmrState
          /\ client' = client /\ client' # <<>>
          /\ listener' = listener /\ listener' # <<>>
    ]_vars

\* C12: an 'error' or 'close' event of one HMR connection leaves the session
\* and the file-change listener of another connection as they are.
C12_FailureIsLocal ==
  [][\A ws \in HmrSockets :
       ((HmrError(ws) \/ HmrClose(ws)) /\ client # <<>> /\ client[1].ws # ws) =>
          /\ client' = client
          /\ listener' = listener
    ]_vars

\* C13: every HMR connection whose snapshot has arrived and that is still
\* open has a live session of its own, holding that connection.
C13_SessionPerConnection ==
  \A ws \in HmrSockets :
    (hmrPhase[ws] = "attached" /\ hmrState[ws] = "OPEN") =>
       /\ client # <<>>
       /\ client[1].ws = ws

\* the types the catch callback passes on to the client
Passed == {"TransformError", "NotFoundError", "UnableToResolveError"}

\* C15: the body made of an error of one of the three passed types carries
\* that type and the error's description, filename and lineNumber unchanged;
\* of any other error it has type InternalError and one fixed description,
\* the same for every such error, and none of the error's own fields.
C15_ErrorTaxonomy ==
  body # <<>> =>
    IF error.type \in Passed
      THEN /\ DOMAIN body = {"type", "description", "filename", "lineNumber"}
           /\ body.type = error.type
           /\ body.description = error.description
           /\ body.filename = error.filename
           /\ body.lineNumber = error.lineNumber
      ELSE /\ DOMAIN body = {"type", "description"}
           /\ body.type = "InternalError"
           /\ body.description \notin Descriptions \cup Files
           /\ \A other \in Errors :
                other.type \notin Passed => ErrorMessage(other).body = body

\* an error of a type that is not passed on, carrying fields of its own, has
\* been turned into a body
C15_Witness ==
  /\ body # <<>>
  /\ error.type = "SyntaxError"
  /\ error.description = "Unexpected token"
  /\ body.type = "InternalError"

\* the fresh list and the cached entry both exist and are equal, element by
\* element
SameList(fresh, cached) ==
  /\ cached # <<>>
  /\ Len(fresh) = Len(cached[1])
  /\ \A i \in 1..Len(fresh) : fresh[i] = cached[1][i]

\* C17: when getShallowDependencies resolves for a live session, the change
\* takes the shallow-equivalent path exactly when the fresh list and the
\* cached list of the file both exist and are equal in length and element by
\* element; otherwise, also for a file without a cached entry, it takes the
\* structural path and requests a full snapshot.
C17_EquivalenceTest ==
  [][\A c \in InFlight :
       (ShallowResolved(c) /\ client # <<>>) =>
          LET same == SameList(getShallowDependencies(fs, c.filename),
                               Lookup(client[1].shallowDependencies, c.filename))
          IN \A d \in BagToSet(cycle') :
               /\ d.pc \in {"nonrec", "full"}
               /\ d.pc = "nonrec" <=> same
               /\ d.pc = "full" =>
                    d.calls[Len(d.calls)] =
                      Call("getDependencies", client[1].bundleEntry, client[1].platform,
                           "unset", "builder")
    ]_vars

\* C18: on the shallow-equivalent path the one getDependencies request is
\* for the changed file, with the session's platform and with the recursive
\* option turned off.
C18_ShallowRequestNonRecursive ==
  [][\A c \in InFlight :
       (ShallowResolved(c) /\ client # <<>>) =>
          \A d \in BagToSet(cycle') \ BagToSet(cycle) :
            d.pc = "nonrec" =>
              /\ Len(d.calls) = Len(c.calls) + 1
              /\ LET request == d.calls[Len(d.calls)] IN
                 /\ request.fn = "getDependencies"
                 /\ request.file = c.filename
                 /\ request.platform = client[1].platform
                 /\ request.recursive = "false"
    ]_vars

\* the file list, the shallow-dependency map and the module index of a
\* session fit together
Consistent(cl) ==
  cl # <<>> =>
    /\ Range(cl[1].dependenciesCache) = DOMAIN cl[1].shallowDependencies
    /\ \A i \in DOMAIN cl[1].dependenciesModulesCache :
         cl[1].dependenciesModulesCache[i].module \in Range(cl[1].dependenciesCache)

\* C19: after every step, also between the steps of overlapping cycles, the
\* file list of a live session and the keys of its shallow-dependency map are
\* the same set and every module of its index is in the file list; a
\* structural recompute replaces the three by those of one snapshot in one
\* step.
C19_SnapshotConsistency ==
  [][/\ Consistent(client')
     /\ \A c \in InFlight :
          (FullResolved(c) /\ client # <<>>) =>
             LET snap == getDependencies(fs, client[1].platform, client[1].bundleEntry) IN
             /\ client' # <<>>
             /\ client'[1].dependenciesCache = snap.dependenciesCache
             /\ client'[1].shallowDependencies = snap.shallowDependencies
             /\ client'[1].dependenciesModulesCache = snap.dependenciesModulesCache
    ]_vars

\* a live session whose snapshot a structural recompute has replaced (its
\* inverse map still names the files of its creation) while cycles overlap
C19_Witness ==
  /\ client # <<>>
  /\ Range(client[1].dependenciesCache) # DOMAIN client[1].inverseDependenciesCache
  /\ BagCardinality(cycle) = 2

\* C20: the inverse-dependency map of every update message is the map
\* computed when the session of the connection it is sent on was created
\* (recomputes do not replace that map of a session).
C20_InverseMapOfSession ==
  ended # <<>> =>
    \A i \in 1..Len(ended[1].sent) :
      ended[1].sent[i].type = "update" =>
        /\ client # <<>>
        /\ client[1].ws = ended[1].sent[i].ws
        /\ ended[1].sent[i].message.inverseDependencies = client[1].inverseDependenciesCache

\* the cycle has asked the bundler for a bundle
CalledBundler(c) == \E i \in 1..Len(c.calls) : c.calls[i].fn = "buildBundleForHMR"

\* C21: when the shallow-equivalent or the structural path of a cycle is
\* over and the changed file has no entry in the shallow-dependency map of
\* the session, the cycle makes no buildBundleForHMR request, sends neither
\* update nor error, and ends with update-done.
C21_TrackedFileGuard ==
  [][\A c \in InFlight :
       ((NonrecResolved(c) \/ FullResolved(c))
          /\ client' # <<>>
          /\ Lookup(client'[1].shallowDependencies, c.filename) = <<>>) =>
            /\ ended' # <<>>
            /\ ~CalledBundler(ended'[1])
            /\ Types(ended'[1]) = <<"update-start", "update-done">>
    ]_vars

\* C22: a cycle that goes on after its session has been torn down leaves
\* the session torn down and the listener as it is, sends nothing but
\* update-done after its update-start, and ends without an uncaught error.
C22_StaleCycle ==
  [][(client = <<>> /\ cycle' # cycle) =>
        /\ client' = <<>>
        /\ listener' = listener
        /\ ended' # <<>> =>
             /\ ~ended'[1].threw
             /\ \A i \in 2..Len(ended'[1].sent) : ended'[1].sent[i].type = "update-done"
    ]_vars

\* C24: every message of a cycle is sent on the connection its update-start
\* was sent on, the one whose session was live when the cycle started.
C24_OneConnectionPerCycle ==
  /\ \A c \in InFlight : \A i \in 1..Len(c.sent) : c.sent[i].ws = StartWs(c)
  /\ ended # <<>> =>
       \A i \in 1..Len(ended[1].sent) : ended[1].sent[i].ws = StartWs(ended[1])

(***************************************************************************)
(* Properties of AsyncStorage                                              *)
(***************************************************************************)

\* C16: after a clear() that resolved, getItem of every key resolves to null
\* and getAllKeys resolves to an empty list.
C16_ClearErasesAll ==
  (result # <<>> /\ result.op = "clear" /\ result.status = "resolved") =>
     /\ \A key \in Keys : getItemValue(key) = NULL
     /\ getAllKeysValue = {}

\* a native key that no key of the running app is stored under: an entry
\* of another app
Foreign(k) == \A key \in Keys : k # prefixKey(key)

\* C26: with an app ID set, getAllKeys resolves to keys stored under that app
\* ID only, getItem resolves to the value stored under it, and no getItem,
\* removeItem or multiRemove changes an entry stored under another app ID.
C26_StorageIsolation ==
  [][(~AppIDMissing /\ appID' = appID /\ result' # <<>>) =>
        /\ (result'.op = "getAllKeys" /\ result'.status = "resolved") =>
              \A k \in result'.value : ~Foreign(k)
        /\ (result'.op = "getItem" /\ result'.status = "resolved") =>
              \E key \in Keys : result'.value = getItemValue(key)
        /\ result'.op \in {"getItem", "removeItem", "multiRemove", "getAllKeys"} =>
              \A k \in DOMAIN store :
                Foreign(k) => (k \in DOMAIN store' /\ store'[k] = store[k])
    ]_vars

====
